---- MODULE Spec2Model ----
(***************************************************************************)
(* Model of csrc/backend.cc: the five block-sparse matrix products dsd,    *)
(* dds, sdd, ssd and dss, with the helpers they share (validation, shape   *)
(* normalisation, transpose meta-data, bitmask workspace).                 *)
(*                                                                         *)
(* Four specifications share the variables:                                *)
(*   Spec         the operations, one action per statement of a handler;   *)
(*   SpecSyn      transpose() applied to bounded block-sparse inputs;      *)
(*   SpecBitmask  size_in_bytes() applied to bounded block counts;         *)
(*   SpecNorm     standardize_shape() applied repeatedly to one shape.     *)
(***************************************************************************)
EXTENDS Integers, Sequences, FiniteSets, TLC

VARIABLES
  op,             \* the operation being executed, "none" between calls
  pc,             \* index of the next statement of the operation
  status,         \* "idle", "running", "returned", "InvalidArgument", "KernelFailure"
  arg,            \* the caller's tensors, by role; shape buffers are written in place
  entry,          \* the caller's tensors as they were when the call was issued
  transpose_lhs,  \* local of the handler
  transpose_rhs,  \* local of the handler
  desc,           \* the sputnik descriptors lhs, rhs, out built by the handler
  meta,           \* the vectors returned by transpose(), by operand
  bitmask,        \* the bitmask tensors allocated by the handler, by operand
  kernel,         \* the multiply entry points invoked, in order
  reported,       \* the cudaError_t each of them reported, in order
  log,            \* the statements executed by this call, in order
  device,         \* the device work issued by this call, in order
  again,          \* how many times the caller has re-issued the call on the same tensors
  prev,           \* the outcome of the call before a re-issue
  syn,            \* SpecSyn: input and output of transpose()
  bm,             \* SpecBitmask: input and output of size_in_bytes()
  norm            \* SpecNorm: a shape tensor and the calls of standardize_shape on it

vars == <<op, pc, status, arg, entry, transpose_lhs, transpose_rhs, desc, meta,
          bitmask, kernel, reported, log, device, again, prev, syn, bm, norm>>

(***************************************************************************)
(* Program constants.                                                      *)
(***************************************************************************)
kBlockSize == 128
kRowLimit == 128 * 128
SizeofHalf == 2
kAlignment == 64
SizeofUint64 == 8
IntMax == 2147483647

(***************************************************************************)
(* Bounds of the model.                                                    *)
(***************************************************************************)
MaxBlocks == 2     \* SpecSyn: block rows and block columns of an input
MaxNnz == 2        \* stored blocks of a block-sparse input
MaxRepeat == 1     \* Spec: re-issues of one call on the same tensors
MaxNormalize == 2  \* SpecNorm: calls of standardize_shape on one shape tensor

Min(a, b) == IF a < b THEN a ELSE b

(***************************************************************************)
(* Fixed-width unsigned integers as little-endian byte sequences, for the  *)
(* arithmetic of size_in_bytes: int is 4 bytes, size_t is 8.               *)
(***************************************************************************)
ToBytes(n, k) == [i \in 1..k |-> IF i <= 4 THEN (n \div (256 ^ (i - 1))) % 256 ELSE 0]

RECURSIVE ColSum(_, _, _, _)
ColSum(x, y, i, j) ==
  IF j = 0 THEN 0 ELSE x[j] * y[i + 1 - j] + ColSum(x, y, i, j - 1)

RECURSIVE Propagate(_, _, _, _)
Propagate(x, y, i, carry) ==
  IF i > Len(x) THEN <<>>
  ELSE LET t == ColSum(x, y, i, i) + carry
       IN  <<t % 256>> \o Propagate(x, y, i + 1, t \div 256)

\* x * y modulo 256^Len(x): the product of two unsigned integers of one width.
MulBytes(x, y) == Propagate(x, y, 1, 0)

\* int -> size_t: the sign bit of the 4-byte value fills the upper 4 bytes.
SignExtend(x) == x \o [i \in 1..4 |-> IF x[4] >= 128 THEN 255 ELSE 0]

RECURSIVE LessEqFrom(_, _, _)
LessEqFrom(x, y, i) ==
  IF i = 0 THEN TRUE
  ELSE IF x[i] # y[i] THEN x[i] < y[i]
  ELSE LessEqFrom(x, y, i - 1)

\* x <= y for unsigned integers of one width.
LessEqBytes(x, y) == LessEqFrom(x, y, Len(x))

(***************************************************************************)
(* size_in_bytes (lines 181-185).  column_entries * rows is an int         *)
(* product; the result is converted to size_t and multiplied by            *)
(* sizeof(uint64_t).  When the int product overflows the behaviour is      *)
(* undefined: the build either wraps to 32 bits or multiplies in 64 bits.  *)
(***************************************************************************)
ColumnEntries(columns) == (columns + kAlignment - 1) \div kAlignment

IntProductOverflows(a, b) == a > 0 /\ b > IntMax \div a

size_in_bytes(rows, columns) ==
  LET column_entries == ColumnEntries(columns)
      wrapped == SignExtend(MulBytes(ToBytes(column_entries, 4), ToBytes(rows, 4)))
      wide    == MulBytes(ToBytes(column_entries, 8), ToBytes(rows, 8))
      scale   == ToBytes(SizeofUint64, 8)
  IN  IF IntProductOverflows(column_entries, rows)
      THEN {MulBytes(wrapped, scale), MulBytes(wide, scale)}
      ELSE {MulBytes(wrapped, scale)}

(***************************************************************************)
(* transpose (lines 126-168) and row_indices (lines 107-120).              *)
(*                                                                         *)
(* Positions of a tensor are 1-based here and 0-based in the source.       *)
(* indices and the row indices are in elements, a block index times the    *)
(* block size: line 163 bins indices over [0, kCols] in kBlockCols bins    *)
(* and line 143 divides the row indices by kBlockSize.                     *)
(***************************************************************************)
kValuesPerBlock(bs) == bs * bs
kBytesPerBlock(bs) == kValuesPerBlock(bs) * SizeofHalf

\* offsets is the row-pointer array of a matrix of m block rows and nnz blocks.
CsrOk(m, offsets, nnz) ==
  /\ Len(offsets) = m + 1
  /\ offsets[1] = 0
  /\ offsets[m + 1] = nnz
  /\ \A i \in 1..m : offsets[i] <= offsets[i + 1]

\* The block row (0-based) holding the k-th stored block.
RowOf(offsets, k) ==
  CHOOSE i \in 0..(Len(offsets) - 2) : offsets[i + 1] < k /\ k <= offsets[i + 2]

\* What the RowIndices kernel may leave in its output tensor.  The tensor is
\* torch::empty and the kernel walks offsets[0 .. rows/block_size]: with a
\* row-pointer array that does not fit the descriptor its contents are
\* unspecified.
RowIndices(rows, bs, offsets, nnz) ==
  IF CsrOk(rows \div bs, offsets, nnz)
  THEN {[k \in 1..nnz |-> bs * RowOf(offsets, k)]}
  ELSE [1..nnz -> {0, bs}]

\* The sort key without the row term: indices alone.
SortIndices_ColumnOnly(indices, row_idxs, bs) ==
  [k \in 1..Len(indices) |-> bs * indices[k]]

\* kBlockSize times line 143's indices + row_idxs / kBlockSize, so that the
\* quotient stays exact.
SortIndices(indices, row_idxs, bs) ==
  [k \in 1..Len(indices) |-> bs * indices[k] + row_idxs[k]]

\* argsort: every permutation that puts the keys in ascending order; the
\* order of equal keys is not specified.
Argsort(keys) ==
  LET n == Len(keys) IN
  {p \in [1..n -> 1..n] :
     /\ \A i, j \in 1..n : i # j => p[i] # p[j]
     /\ \A i, j \in 1..n : i < j => keys[p[i]] <= keys[p[j]]}

Gather(x, gather_indices) == [k \in 1..Len(gather_indices) |-> x[gather_indices[k]]]

\* block_offsets counted in values of a block, not in bytes.
BlockOffsets_Values(kNonzeros, bs) ==
  [k \in 1..kNonzeros |-> (k - 1) * kValuesPerBlock(bs)]

\* linspace(0, (kNonzeros - 1) * kBytesPerBlock, kNonzeros)
BlockOffsets(kNonzeros, bs) == [k \in 1..kNonzeros |-> (k - 1) * kBytesPerBlock(bs)]

\* histc(bins, lo, hi): values outside [lo, hi] are dropped, hi falls in the
\* last bin.
HistcBin(v, bins, lo, hi) ==
  LET b == ((v - lo) * bins) \div (hi - lo)
  IN  IF b = bins THEN bins - 1 ELSE b

Histc(x, bins, lo, hi) ==
  [b \in 1..bins |->
     Cardinality({k \in 1..Len(x) :
        x[k] >= lo /\ x[k] <= hi /\ HistcBin(x[k], bins, lo, hi) = b - 1})]

\* The running sums of x[lo..hi] on top of base, by halves.
RECURSIVE CumsumRange(_, _, _, _)
CumsumRange(x, lo, hi, base) ==
  IF lo > hi THEN <<>>
  ELSE IF lo = hi THEN <<base + x[lo]>>
  ELSE LET mid == (lo + hi) \div 2
           left == CumsumRange(x, lo, mid, base)
       IN  left \o CumsumRange(x, mid + 1, hi, left[Len(left)])

Cumsum(x) == CumsumRange(x, 1, Len(x), 0)

\* OffsetsT with the histogram taken over the block columns [0, kBlockCols].
OffsetsT_BlockRange(indices, bs, kCols) ==
  LET kBlockCols == kCols \div bs
      nnz_per_column == Histc(indices, kBlockCols, 0, kBlockCols)
      scan == Cumsum(nnz_per_column)
  IN  <<0>> \o [b \in 1..kBlockCols |-> scan[b] * kValuesPerBlock(bs)]

\* OffsetsT counting blocks, the scan not scaled to elements.
OffsetsT_Unscaled(indices, bs, kCols) ==
  LET kBlockCols == kCols \div bs
      nnz_per_column == Histc(indices, kBlockCols, 0, kCols)
      scan == Cumsum(nnz_per_column)
  IN  <<0>> \o [b \in 1..kBlockCols |-> scan[b]]

\* Lines 162-166.
OffsetsT(indices, bs, kCols) ==
  LET kBlockCols == kCols \div bs
      nnz_per_column == Histc(indices, kBlockCols, 0, kCols)
      scan == Cumsum(nnz_per_column)
  IN  <<0>> \o [b \in 1..kBlockCols |-> scan[b] * kValuesPerBlock(bs)]

\* The TORCH_CHECKs of lines 140-141.
TransposeChecks(shape, bs) == bs = 128 /\ shape[1] <= kRowLimit

\* Lines 142-167, for one output of the RowIndices kernel: the vectors
\* {indices_t, offsets_t, block_offsets_t} transpose() may return.
TransposeOf(shape, bs, indices, row_idxs) ==
  LET kNonzeros == Len(indices)
      kCols == shape[2]
      sort_indices == SortIndices(indices, row_idxs, bs)
  IN  {<<Gather(row_idxs, gather_indices),
         OffsetsT(indices, bs, kCols),
         Gather(BlockOffsets(kNonzeros, bs), gather_indices)>> :
         gather_indices \in Argsort(sort_indices)}

Transpose(shape, bs, offsets, indices) ==
  UNION {TransposeOf(shape, bs, indices, row_idxs) :
           row_idxs \in RowIndices(shape[1], bs, offsets, Len(indices))}

(***************************************************************************)
(* Validation and conversion helpers (lines 27-101, 170-197).              *)
(*                                                                         *)
(* A dense tensor is [kind, ok, sizes, strides]: ok stands for the device, *)
(* rank and dtype checks of validate_dense.  A block-sparse operand is     *)
(* [kind, shape_ok, shape, data_ok, bs, offsets, indices]: shape_ok stands *)
(* for the checks of validate_shape, data_ok for lines 44-55 and bs is     *)
(* data.size(1).  A transpose tensor is [ok, v].                           *)
(***************************************************************************)
NoTensor == [kind |-> "none"]
NoFlag == [ok |-> FALSE, v |-> 0]

NoDesc ==
  [kind |-> "none", rows |-> 0, cols |-> 0, block_size |-> 0, nonzeros |-> 0,
   indices_t |-> "null", offsets_t |-> "null", block_offsets |-> "null",
   bitmask |-> "null"]

validate_shape(x) == x.shape_ok

validate_transpose(t) == t.ok

validate_sparse(x) == validate_shape(x) /\ x.data_ok /\ x.bs = 128

is_transposed(x) == x.strides[1] = 1 /\ x.strides[2] = x.sizes[1]

is_contiguous(x) == x.strides = <<x.sizes[2], 1>>

validate_dense(x) == x.ok /\ (is_contiguous(x) \/ is_transposed(x))

as_matrix(x) ==
  [NoDesc EXCEPT !.kind = "dense",
                 !.rows = IF is_transposed(x) THEN x.sizes[2] ELSE x.sizes[1],
                 !.cols = IF is_transposed(x) THEN x.sizes[1] ELSE x.sizes[2]]

as_block_matrix(x) ==
  [NoDesc EXCEPT !.kind = "sparse",
                 !.rows = x.shape[1],
                 !.cols = x.shape[2],
                 !.block_size = x.bs,
                 !.nonzeros = Len(x.indices)]

\* standardize_shape putting the larger dimension first when asked to
\* transpose: it swaps (small, large) once and leaves the result alone after.
standardize_shape_Ordered(shape, transpose) ==
  IF transpose /\ shape[1] < shape[2] THEN <<shape[2], shape[1]>> ELSE shape

\* The contents of the shape tensor after standardize_shape(shape, transpose).
standardize_shape(shape, transpose) ==
  LET rows == IF transpose THEN shape[2] ELSE shape[1]
      cols == IF transpose THEN shape[1] ELSE shape[2]
  IN  <<rows, cols>>

\* The sizes in bytes the tensor allocated by allocate_bitmask(m, trans) may have.
allocate_bitmask(m, trans) ==
  LET block_size == m.block_size
      block_rows == (IF trans THEN m.cols ELSE m.rows) \div block_size
      block_cols == (IF trans THEN m.rows ELSE m.cols) \div block_size
  IN  size_in_bytes(block_rows, block_cols)

\* sputnik::block::ValidMatmul: the inner dimensions agree and the output has
\* the dimensions of the product, each operand taken as transposed or not.
ValidMatmul(a, transpose_a, b, transpose_b, c) ==
  LET m == IF transpose_a THEN a.cols ELSE a.rows
      k == IF transpose_a THEN a.rows ELSE a.cols
      kb == IF transpose_b THEN b.cols ELSE b.rows
      n == IF transpose_b THEN b.rows ELSE b.cols
  IN  k = kb /\ c.rows = m /\ c.cols = n

(***************************************************************************)
(* The operations (lines 204-467), each the sequence of its statements.    *)
(* A statement is [f, x]: the helper it calls and the operand it is about. *)
(***************************************************************************)
Stmt(f, x) == [f |-> f, x |-> x]

\* dsd with the test of the transpose flag inverted.
dsd_Inverted ==
  <<Stmt("validate_transpose", "lhs"), Stmt("validate_shape", "lhs"),
    Stmt("standardize_shape", "lhs"), Stmt("as_block_matrix", "lhs"),
    Stmt("as_matrix", "rhs"), Stmt("as_matrix", "out"),
    Stmt("ValidMatmul", "all")>>
  \o (IF ~transpose_lhs
      THEN <<Stmt("transpose", "lhs"), Stmt("set_pointers", "lhs"),
             Stmt("MatmulEx", "all")>>
      ELSE <<Stmt("Matmul", "all")>>)

dsd ==
  <<Stmt("validate_transpose", "lhs"), Stmt("validate_shape", "lhs"),
    Stmt("standardize_shape", "lhs"), Stmt("as_block_matrix", "lhs"),
    Stmt("as_matrix", "rhs"), Stmt("as_matrix", "out"),
    Stmt("ValidMatmul", "all")>>
  \o (IF transpose_lhs
      THEN <<Stmt("transpose", "lhs"), Stmt("set_pointers", "lhs"),
             Stmt("MatmulEx", "all")>>
      ELSE <<Stmt("Matmul", "all")>>)

\* dds building the descriptor of rhs before it normalises the shape.
dds_NormaliseLate ==
  <<Stmt("as_matrix", "lhs"),
    Stmt("validate_transpose", "rhs"), Stmt("validate_shape", "rhs"),
    Stmt("as_block_matrix", "rhs"), Stmt("standardize_shape", "rhs"),
    Stmt("as_matrix", "out"),
    Stmt("ValidMatmul", "all")>>
  \o (IF ~transpose_rhs
      THEN <<Stmt("transpose", "rhs"), Stmt("set_pointers", "rhs"),
             Stmt("MatmulEx", "all")>>
      ELSE <<Stmt("Matmul", "all")>>)

\* dds with the test of the transpose flag inverted.
dds_Inverted ==
  <<Stmt("as_matrix", "lhs"),
    Stmt("validate_transpose", "rhs"), Stmt("validate_shape", "rhs"),
    Stmt("standardize_shape", "rhs"), Stmt("as_block_matrix", "rhs"),
    Stmt("as_matrix", "out"),
    Stmt("ValidMatmul", "all")>>
  \o (IF transpose_rhs
      THEN <<Stmt("transpose", "rhs"), Stmt("set_pointers", "rhs"),
             Stmt("MatmulEx", "all")>>
      ELSE <<Stmt("Matmul", "all")>>)

dds ==
  <<Stmt("as_matrix", "lhs"),
    Stmt("validate_transpose", "rhs"), Stmt("validate_shape", "rhs"),
    Stmt("standardize_shape", "rhs"), Stmt("as_block_matrix", "rhs"),
    Stmt("as_matrix", "out"),
    Stmt("ValidMatmul", "all")>>
  \o (IF ~transpose_rhs
      THEN <<Stmt("transpose", "rhs"), Stmt("set_pointers", "rhs"),
             Stmt("MatmulEx", "all")>>
      ELSE <<Stmt("Matmul", "all")>>)

\* sdd normalising the shape of its output as the other operations do for
\* their inputs.
sdd_Normalising ==
  <<Stmt("as_matrix", "lhs"), Stmt("as_matrix", "rhs"),
    Stmt("validate_shape", "out"), Stmt("standardize_shape", "out"),
    Stmt("as_block_matrix", "out"),
    Stmt("ValidMatmul", "all"),
    Stmt("Matmul", "all")>>

sdd ==
  <<Stmt("as_matrix", "lhs"), Stmt("as_matrix", "rhs"),
    Stmt("as_block_matrix", "out"),
    Stmt("ValidMatmul", "all"),
    Stmt("Matmul", "all")>>

ssd ==
  <<Stmt("validate_transpose", "lhs"), Stmt("validate_shape", "lhs"),
    Stmt("standardize_shape", "lhs"), Stmt("as_block_matrix", "lhs"),
    Stmt("as_matrix", "rhs"),
    Stmt("as_block_matrix", "out"),
    Stmt("ValidMatmul", "all")>>
  \o (IF transpose_lhs
      THEN <<Stmt("transpose", "lhs"), Stmt("set_pointers", "lhs"),
             Stmt("MatmulEx", "all")>>
      ELSE <<Stmt("Matmul", "all")>>)

\* dss with the bitmasks allocated after the transpose views.
dss_ViewsFirst ==
  <<Stmt("validate_transpose", "lhs"), Stmt("validate_shape", "lhs"),
    Stmt("standardize_shape", "lhs"), Stmt("as_block_matrix", "lhs"),
    Stmt("validate_transpose", "rhs"), Stmt("validate_shape", "rhs"),
    Stmt("standardize_shape", "rhs"), Stmt("as_block_matrix", "rhs"),
    Stmt("as_matrix", "out"),
    Stmt("ValidMatmul", "all")>>
  \o (IF transpose_lhs
      THEN <<Stmt("transpose", "lhs"), Stmt("set_pointers", "lhs")>>
      ELSE <<>>)
  \o (IF ~transpose_rhs
      THEN <<Stmt("transpose", "rhs"), Stmt("set_pointers", "rhs")>>
      ELSE <<>>)
  \o <<Stmt("allocate_bitmask", "lhs"), Stmt("allocate_bitmask", "rhs"),
       Stmt("MatmulEx", "all")>>

\* dss applying the rule of the left operand to the right one as well.
dss_SameRule ==
  <<Stmt("validate_transpose", "lhs"), Stmt("validate_shape", "lhs"),
    Stmt("standardize_shape", "lhs"), Stmt("as_block_matrix", "lhs"),
    Stmt("validate_transpose", "rhs"), Stmt("validate_shape", "rhs"),
    Stmt("standardize_shape", "rhs"), Stmt("as_block_matrix", "rhs"),
    Stmt("as_matrix", "out"),
    Stmt("ValidMatmul", "all"),
    Stmt("allocate_bitmask", "lhs"), Stmt("allocate_bitmask", "rhs")>>
  \o (IF transpose_lhs
      THEN <<Stmt("transpose", "lhs"), Stmt("set_pointers", "lhs")>>
      ELSE <<>>)
  \o (IF transpose_rhs
      THEN <<Stmt("transpose", "rhs"), Stmt("set_pointers", "rhs")>>
      ELSE <<>>)
  \o <<Stmt("MatmulEx", "all")>>

\* dss with the bitmasks allocated before the problem is validated.
dss_BitmasksEarly ==
  <<Stmt("validate_transpose", "lhs"), Stmt("validate_shape", "lhs"),
    Stmt("standardize_shape", "lhs"), Stmt("as_block_matrix", "lhs"),
    Stmt("validate_transpose", "rhs"), Stmt("validate_shape", "rhs"),
    Stmt("standardize_shape", "rhs"), Stmt("as_block_matrix", "rhs"),
    Stmt("as_matrix", "out"),
    Stmt("allocate_bitmask", "lhs"), Stmt("allocate_bitmask", "rhs"),
    Stmt("ValidMatmul", "all")>>
  \o (IF transpose_lhs
      THEN <<Stmt("transpose", "lhs"), Stmt("set_pointers", "lhs")>>
      ELSE <<>>)
  \o (IF ~transpose_rhs
      THEN <<Stmt("transpose", "rhs"), Stmt("set_pointers", "rhs")>>
      ELSE <<>>)
  \o <<Stmt("MatmulEx", "all")>>

dss ==
  <<Stmt("validate_transpose", "lhs"), Stmt("validate_shape", "lhs"),
    Stmt("standardize_shape", "lhs"), Stmt("as_block_matrix", "lhs"),
    Stmt("validate_transpose", "rhs"), Stmt("validate_shape", "rhs"),
    Stmt("standardize_shape", "rhs"), Stmt("as_block_matrix", "rhs"),
    Stmt("as_matrix", "out"),
    Stmt("ValidMatmul", "all"),
    Stmt("allocate_bitmask", "lhs"), Stmt("allocate_bitmask", "rhs")>>
  \o (IF transpose_lhs
      THEN <<Stmt("transpose", "lhs"), Stmt("set_pointers", "lhs")>>
      ELSE <<>>)
  \o (IF ~transpose_rhs
      THEN <<Stmt("transpose", "rhs"), Stmt("set_pointers", "rhs")>>
      ELSE <<>>)
  \o <<Stmt("MatmulEx", "all")>>

Ops == {"dsd", "dds", "sdd", "ssd", "dss"}

Code ==
  CASE op = "dsd" -> dsd
    [] op = "dds" -> dds
    [] op = "sdd" -> sdd
    [] op = "ssd" -> ssd
    [] op = "dss" -> dss
    [] OTHER -> <<>>

(***************************************************************************)
(* The arguments a caller passes.                                          *)
(***************************************************************************)
\* One block, and the smallest dimension past the row limit of transpose().
Dims == {kBlockSize, kRowLimit + kBlockSize}

Max(a, b) == IF a < b THEN b ELSE a

\* A well-formed block-sparse pattern for a matrix of the given shape: block
\* k lies on the diagonal as far as the shape allows.
PatternNnz(shape) ==
  Min(MaxNnz, Max(shape[1] \div kBlockSize, shape[2] \div kBlockSize))

PatternIndices(shape) ==
  [k \in 1..PatternNnz(shape) |->
     kBlockSize * Min(k - 1, (shape[2] \div kBlockSize) - 1)]

PatternOffsets(shape) ==
  [i \in 1..((shape[1] \div kBlockSize) + 1) |->
     Cardinality({k \in 1..PatternNnz(shape) :
        Min(k - 1, (shape[1] \div kBlockSize) - 1) < i - 1})]

\* A block-sparse operand declared with `shape`, stored as the shape
\* normaliser will leave it for transpose flag t.
SparseArg(shape, t) ==
  LET stored == standardize_shape(shape, t # 0)
  IN  [kind |-> "sparse", shape_ok |-> TRUE, shape |-> shape, data_ok |-> TRUE,
       bs |-> kBlockSize,
       offsets |-> PatternOffsets(stored), indices |-> PatternIndices(stored)]

DenseArg(sizes, layout) ==
  [kind |-> "dense", ok |-> TRUE, sizes |-> sizes,
   strides |-> IF layout = "row" THEN <<sizes[2], 1>> ELSE <<1, sizes[1]>>]

FlagArg(t) == [ok |-> TRUE, v |-> t]

Shapes == Dims \X Dims
SparseArgs == {SparseArg(sh, t) : sh \in Shapes, t \in {0}}
DenseArgs == {DenseArg(sh, l) : sh \in Shapes, l \in {"row", "col"}}

\* The largest block count a shape of 32-bit integers gives.
MaxBlockCount == IntMax \div kBlockSize

\* A shape whose bitmask has 2^31 words: kRowLimit block rows and 64 * 2^17
\* block columns.
BigShape == <<kRowLimit * kBlockSize, ((MaxBlockCount \div 2) + 1) * kBlockSize>>

\* dss of a BigShape left operand, not transposed, with a transposed right
\* operand of one block of columns.
BigDssArgs ==
  {[lhs |-> SparseArg(BigShape, 0),
    rhs |-> SparseArg(<<BigShape[2], kBlockSize>>, 1),
    out |-> DenseArg(<<BigShape[1], kBlockSize>>, "row"),
    transpose_a |-> FlagArg(0), transpose_b |-> FlagArg(1)]}

Args(o) ==
  CASE o = "dsd" ->
         {[lhs |-> SparseArg(sh, t), rhs |-> r, out |-> c,
           transpose_a |-> FlagArg(t), transpose_b |-> NoFlag] :
            sh \in Shapes, t \in {0, 1}, r \in DenseArgs, c \in DenseArgs}
    [] o = "dds" ->
         {[lhs |-> l, rhs |-> SparseArg(sh, t), out |-> c,
           transpose_a |-> NoFlag, transpose_b |-> FlagArg(t)] :
            l \in DenseArgs, sh \in Shapes, t \in {0, 1}, c \in DenseArgs}
    [] o = "sdd" ->
         {[lhs |-> l, rhs |-> r, out |-> c,
           transpose_a |-> NoFlag, transpose_b |-> NoFlag] :
            l \in DenseArgs, r \in DenseArgs, c \in SparseArgs}
    [] o = "ssd" ->
         {[lhs |-> SparseArg(sh, t), rhs |-> r, out |-> c,
           transpose_a |-> FlagArg(t), transpose_b |-> NoFlag] :
            sh \in Shapes, t \in {0, 1}, r \in DenseArgs, c \in SparseArgs}
    [] o = "dss" ->
         {[lhs |-> SparseArg(sh, t), rhs |-> SparseArg(sh2, t2), out |-> c,
           transpose_a |-> FlagArg(t), transpose_b |-> FlagArg(t2)] :
            sh \in Shapes, t \in {0, 1}, sh2 \in Shapes, t2 \in {0, 1},
            c \in DenseArgs}
         \cup BigDssArgs

\* The ways one tensor of a call can be malformed.
TensorFaults(a, x) ==
  IF a[x].kind = "sparse"
  THEN {<<x, "shape">>, <<x, "data">>, <<x, "bs">>}
  ELSE {<<x, "ok">>, <<x, "strides">>}

Faults(a) ==
  {<<"none", "none">>}
  \cup UNION {TensorFaults(a, x) : x \in {"lhs", "rhs", "out"}}
  \cup (IF a.transpose_a.ok THEN {<<"transpose_a", "ok">>} ELSE {})
  \cup (IF a.transpose_b.ok THEN {<<"transpose_b", "ok">>} ELSE {})

BadTensor(t, what) ==
  CASE what = "shape" -> [t EXCEPT !.shape_ok = FALSE]
    [] what = "data" -> [t EXCEPT !.data_ok = FALSE]
    [] what = "bs" -> [t EXCEPT !.bs = 64]
    [] what = "strides" -> [t EXCEPT !.strides = <<2 * t.sizes[2], 2>>]
    [] what = "ok" -> [t EXCEPT !.ok = FALSE]

Inject(a, fault) ==
  IF fault[1] = "none" THEN a
  ELSE [a EXCEPT ![fault[1]] = BadTensor(@, fault[2])]

(***************************************************************************)
(* State of the operations.                                                *)
(***************************************************************************)
NoArgs ==
  [lhs |-> NoTensor, rhs |-> NoTensor, out |-> NoTensor,
   transpose_a |-> NoFlag, transpose_b |-> NoFlag]

NoDescs == [lhs |-> NoDesc, rhs |-> NoDesc, out |-> NoDesc]
NoMeta == [lhs |-> <<>>, rhs |-> <<>>]
NoBitmask == [lhs |-> <<>>, rhs |-> <<>>]

\* What a caller observes of a call: how it ended, the entry points invoked
\* and the (rows, cols) of the descriptors handed to them.
Outcome ==
  [status |-> status, kernel |-> kernel,
   lhs |-> <<desc.lhs.rows, desc.lhs.cols>>,
   rhs |-> <<desc.rhs.rows, desc.rhs.cols>>,
   out |-> <<desc.out.rows, desc.out.cols>>]

NoOutcome ==
  [status |-> "none", kernel |-> <<>>, lhs |-> <<0, 0>>, rhs |-> <<0, 0>>,
   out |-> <<0, 0>>]

NoSyn ==
  [shape |-> <<0, 0>>, bs |-> 0, offsets |-> <<>>, indices |-> <<>>,
   state |-> "off", out |-> <<>>]

NoBm == [rows |-> 0, cols |-> 0, state |-> "off", bytes |-> <<>>]

NoNorm == [hist |-> <<>>, flags |-> <<>>]

Idle ==
  /\ op = "none"
  /\ pc = 1
  /\ status = "idle"
  /\ arg = NoArgs
  /\ entry = NoArgs
  /\ transpose_lhs = FALSE
  /\ transpose_rhs = FALSE
  /\ desc = NoDescs
  /\ meta = NoMeta
  /\ bitmask = NoBitmask
  /\ kernel = <<>>
  /\ reported = <<>>
  /\ log = <<>>
  /\ device = <<>>
  /\ again = 0
  /\ prev = NoOutcome

Init == Idle /\ syn = NoSyn /\ bm = NoBm /\ norm = NoNorm

Finished == status \in {"idle", "returned", "InvalidArgument", "KernelFailure"}

At(f) == status = "running" /\ pc <= Len(Code) /\ Code[pc].f = f

\* The locals of a handler as a call starts.
Enter ==
  /\ pc' = 1
  /\ status' = "running"
  /\ transpose_lhs' = FALSE
  /\ transpose_rhs' = FALSE
  /\ desc' = NoDescs
  /\ meta' = NoMeta
  /\ bitmask' = NoBitmask
  /\ kernel' = <<>>
  /\ reported' = <<>>
  /\ log' = <<>>
  /\ device' = <<>>

\* The caller issues an operation on tensors it has just made.
Call ==
  /\ status = "idle"
  /\ \E o \in Ops : \E a \in Args(o) : \E fault \in Faults(a) :
       /\ op' = o
       /\ arg' = Inject(a, fault)
       /\ entry' = Inject(a, fault)
  /\ Enter
  /\ again' = 0
  /\ prev' = NoOutcome
  /\ UNCHANGED <<syn, bm, norm>>

\* The caller issues the operation again, passing the same tensors.
CallAgain ==
  /\ Finished
  /\ status # "idle"
  /\ again < MaxRepeat
  /\ Enter
  /\ entry' = arg
  /\ again' = again + 1
  /\ prev' = Outcome
  /\ UNCHANGED <<op, arg, syn, bm, norm>>

\* The statement at pc has run to its end.
Advance == pc' = pc + 1 /\ log' = Append(log, Code[pc]) /\ status' = status

\* The statement at pc has thrown.
Raise(error) == pc' = pc /\ log' = Append(log, Code[pc]) /\ status' = error

FlagOf(x) == IF x = "lhs" THEN arg.transpose_a ELSE arg.transpose_b
TransposeOfOperand(x) == IF x = "lhs" THEN transpose_lhs ELSE transpose_rhs

\* validate_transpose(transpose_x); bool transpose_x = access_metadata(transpose_x);
ValidateTranspose ==
  /\ At("validate_transpose")
  /\ LET x == Code[pc].x
         t == FlagOf(x)
     IN  IF validate_transpose(t)
         THEN /\ transpose_lhs' = IF x = "lhs" THEN t.v # 0 ELSE transpose_lhs
              /\ transpose_rhs' = IF x = "rhs" THEN t.v # 0 ELSE transpose_rhs
              /\ Advance
         ELSE /\ Raise("InvalidArgument")
              /\ UNCHANGED <<transpose_lhs, transpose_rhs>>
  /\ UNCHANGED <<op, arg, entry, desc, meta, bitmask, kernel, device, again,
                 prev, syn, bm, norm, reported>>

ValidateShape ==
  /\ At("validate_shape")
  /\ IF validate_shape(arg[Code[pc].x]) THEN Advance ELSE Raise("InvalidArgument")
  /\ UNCHANGED <<op, arg, entry, transpose_lhs, transpose_rhs, desc, meta,
                 bitmask, kernel, device, again, prev, syn, bm, norm, reported>>

\* standardize_shape working on a copy: the caller's shape tensor is not written.
StandardizeShape_Copy ==
  /\ At("standardize_shape")
  /\ Advance
  /\ UNCHANGED <<op, arg, entry, transpose_lhs, transpose_rhs, desc, meta, bitmask,
                 kernel, device, again, prev, syn, bm, norm, reported>>

\* standardize_shape writes the caller's shape tensor.
StandardizeShape ==
  /\ At("standardize_shape")
  /\ LET x == Code[pc].x
     IN  arg' = [arg EXCEPT ![x].shape =
                   standardize_shape(@, TransposeOfOperand(x))]
  /\ Advance
  /\ UNCHANGED <<op, entry, transpose_lhs, transpose_rhs, desc, meta, bitmask,
                 kernel, device, again, prev, syn, bm, norm, reported>>

AsBlockMatrix ==
  /\ At("as_block_matrix")
  /\ LET x == Code[pc].x
     IN  IF validate_sparse(arg[x])
         THEN desc' = [desc EXCEPT ![x] = as_block_matrix(arg[x])] /\ Advance
         ELSE UNCHANGED desc /\ Raise("InvalidArgument")
  /\ UNCHANGED <<op, arg, entry, transpose_lhs, transpose_rhs, meta, bitmask,
                 kernel, device, again, prev, syn, bm, norm, reported>>

\* auto x = as_matrix(x_t); for an input, bool transpose_x = is_transposed(x_t);
AsMatrix ==
  /\ At("as_matrix")
  /\ LET x == Code[pc].x
     IN  IF validate_dense(arg[x])
         THEN /\ desc' = [desc EXCEPT ![x] = as_matrix(arg[x])]
              /\ transpose_lhs' =
                   IF x = "lhs" THEN is_transposed(arg[x]) ELSE transpose_lhs
              /\ transpose_rhs' =
                   IF x = "rhs" THEN is_transposed(arg[x]) ELSE transpose_rhs
              /\ Advance
         ELSE /\ UNCHANGED <<desc, transpose_lhs, transpose_rhs>>
              /\ Raise("InvalidArgument")
  /\ UNCHANGED <<op, arg, entry, meta, bitmask, kernel, device, again, prev,
                 syn, bm, norm, reported>>

CheckValidMatmul ==
  /\ At("ValidMatmul")
  /\ IF ValidMatmul(desc.lhs, transpose_lhs, desc.rhs, transpose_rhs, desc.out)
     THEN Advance
     ELSE Raise("InvalidArgument")
  /\ UNCHANGED <<op, arg, entry, transpose_lhs, transpose_rhs, desc, meta,
                 bitmask, kernel, device, again, prev, syn, bm, norm, reported>>

\* auto x_bitmask = allocate_bitmask(x, transpose_x, ...); x.bitmask = x_bitmask.data_ptr();
AllocateBitmask ==
  /\ At("allocate_bitmask")
  /\ LET x == Code[pc].x
     IN  /\ \E bytes \in allocate_bitmask(desc[x], TransposeOfOperand(x)) :
              bitmask' = [bitmask EXCEPT ![x] = bytes]
         /\ desc' = [desc EXCEPT ![x].bitmask = "bitmask"]
         /\ device' = Append(device, Stmt("empty", x))
  /\ Advance
  /\ UNCHANGED <<op, arg, entry, transpose_lhs, transpose_rhs, meta, kernel,
                 again, prev, syn, bm, norm, reported>>

KernelStatus == {"cudaSuccess", "cudaError"}

\* transpose() given the shape as the caller declared it, not the shape
\* tensor as standardize_shape left it.
TransposeStep_Declared ==
  /\ At("transpose")
  /\ LET x == Code[pc].x
         a == [arg[x] EXCEPT !.shape = entry[x].shape]
     IN  IF ~TransposeChecks(a.shape, a.bs)
         THEN Raise("InvalidArgument") /\ UNCHANGED <<meta, device>>
         ELSE \E st \in KernelStatus :
                IF st # "cudaSuccess"
                THEN /\ Raise("KernelFailure")
                     /\ device' = Append(device, Stmt("RowIndices", x))
                     /\ UNCHANGED meta
                ELSE /\ \E m \in Transpose(a.shape, a.bs, a.offsets, a.indices) :
                          meta' = [meta EXCEPT ![x] = m]
                     /\ device' = device \o <<Stmt("RowIndices", x), Stmt("argsort", x)>>
                     /\ Advance
  /\ UNCHANGED <<op, arg, entry, transpose_lhs, transpose_rhs, desc, bitmask,
                 kernel, again, prev, syn, bm, norm, reported>>

\* meta = transpose(shape, data, offsets, indices): the checks of lines
\* 140-141, then the RowIndices kernel, then the sort and the gathers.
TransposeStep ==
  /\ At("transpose")
  /\ LET x == Code[pc].x
         a == arg[x]
     IN  IF ~TransposeChecks(a.shape, a.bs)
         THEN Raise("InvalidArgument") /\ UNCHANGED <<meta, device>>
         ELSE \E st \in KernelStatus :
                IF st # "cudaSuccess"
                THEN /\ Raise("KernelFailure")
                     /\ device' = Append(device, Stmt("RowIndices", x))
                     /\ UNCHANGED meta
                ELSE /\ \E m \in Transpose(a.shape, a.bs, a.offsets, a.indices) :
                          meta' = [meta EXCEPT ![x] = m]
                     /\ device' = device \o <<Stmt("RowIndices", x), Stmt("argsort", x)>>
                     /\ Advance
  /\ UNCHANGED <<op, arg, entry, transpose_lhs, transpose_rhs, desc, bitmask,
                 kernel, again, prev, syn, bm, norm, reported>>

\* x.indices_t = meta[0].data_ptr(); x.offsets_t = meta[1].data_ptr();
\* x.block_offsets = meta[2].data_ptr();
SetPointers ==
  /\ At("set_pointers")
  /\ LET x == Code[pc].x
     IN  desc' = [desc EXCEPT ![x].indices_t = "meta[0]",
                              ![x].offsets_t = "meta[1]",
                              ![x].block_offsets = "meta[2]"]
  /\ Advance
  /\ UNCHANGED <<op, arg, entry, transpose_lhs, transpose_rhs, meta, bitmask,
                 kernel, device, again, prev, syn, bm, norm, reported>>

\* CALL_CUDA with TORCH_CHECK left out: the status is read and dropped.
Invoke_Unchecked(f) ==
  /\ At(f)
  /\ kernel' = Append(kernel, f)
  /\ device' = Append(device, Stmt(f, "all"))
  /\ \E st \in KernelStatus : reported' = Append(reported, st)
  /\ Advance
  /\ UNCHANGED <<op, arg, entry, transpose_lhs, transpose_rhs, desc, meta,
                 bitmask, again, prev, syn, bm, norm>>

\* CALL_CUDA(sputnik::block::Matmul(...)) and CALL_CUDA(sputnik::block::MatmulEx(...))
Invoke(f) ==
  /\ At(f)
  /\ kernel' = Append(kernel, f)
  /\ device' = Append(device, Stmt(f, "all"))
  /\ \E st \in KernelStatus :
       /\ reported' = Append(reported, st)
       /\ IF st = "cudaSuccess" THEN Advance ELSE Raise("KernelFailure")
  /\ UNCHANGED <<op, arg, entry, transpose_lhs, transpose_rhs, desc, meta,
                 bitmask, again, prev, syn, bm, norm>>

Matmul == Invoke("Matmul")

MatmulEx == Invoke("MatmulEx")

Return ==
  /\ status = "running"
  /\ pc > Len(Code)
  /\ status' = "returned"
  /\ UNCHANGED <<op, pc, arg, entry, transpose_lhs, transpose_rhs, desc, meta,
                 bitmask, kernel, log, device, again, prev, syn, bm, norm, reported>>

\* The caller drops the tensors of the call that has ended.
Release ==
  /\ Finished
  /\ status # "idle"
  /\ op' = "none"
  /\ pc' = 1
  /\ status' = "idle"
  /\ arg' = NoArgs
  /\ entry' = NoArgs
  /\ transpose_lhs' = FALSE
  /\ transpose_rhs' = FALSE
  /\ desc' = NoDescs
  /\ meta' = NoMeta
  /\ bitmask' = NoBitmask
  /\ kernel' = <<>>
  /\ reported' = <<>>
  /\ log' = <<>>
  /\ device' = <<>>
  /\ again' = 0
  /\ prev' = NoOutcome
  /\ UNCHANGED <<syn, bm, norm>>

Next ==
  \/ Call
  \/ Release
  \/ CallAgain
  \/ ValidateTranspose
  \/ ValidateShape
  \/ StandardizeShape
  \/ AsBlockMatrix
  \/ AsMatrix
  \/ CheckValidMatmul
  \/ AllocateBitmask
  \/ TransposeStep
  \/ SetPointers
  \/ Matmul
  \/ MatmulEx
  \/ Return

Spec == Init /\ [][Next]_vars

(***************************************************************************)
(* SpecSyn: transpose() on every well-formed block-sparse input of up to   *)
(* MaxBlocks block rows and block columns and MaxNnz blocks, with indices  *)
(* given either as block columns or as element columns, and on inputs      *)
(* past the row limit.                                                     *)
(***************************************************************************)
SynCols == {kBlockSize * k : k \in 1..MaxBlocks}
SynRows == SynCols \cup {kRowLimit + kBlockSize}

IndexValues(cols) ==
  LET n == cols \div kBlockSize
  IN  (0..(n - 1)) \cup {kBlockSize * c : c \in 0..(n - 1)}

RowPointers(m, nnz) ==
  IF m <= MaxBlocks
  THEN {o \in [1..(m + 1) -> 0..nnz] : CsrOk(m, o, nnz)}
  ELSE {[i \in 1..(m + 1) |-> IF i = 1 THEN 0 ELSE nnz]}

SynInputs ==
  UNION {UNION {
     {[shape |-> <<r, c>>, bs |-> kBlockSize, offsets |-> o, indices |-> ix,
       state |-> "input", out |-> <<>>] :
        o \in RowPointers(r \div kBlockSize, nnz),
        ix \in [1..nnz -> IndexValues(c)]} :
     nnz \in 0..MaxNnz} : r \in SynRows, c \in SynCols}

InitSyn == Idle /\ bm = NoBm /\ norm = NoNorm /\ syn \in SynInputs

SynTranspose ==
  /\ syn.state = "input"
  /\ TransposeChecks(syn.shape, syn.bs)
  /\ \E m \in Transpose(syn.shape, syn.bs, syn.offsets, syn.indices) :
       syn' = [syn EXCEPT !.state = "done", !.out = m]
  /\ UNCHANGED <<op, pc, status, arg, entry, transpose_lhs, transpose_rhs,
                 desc, meta, bitmask, kernel, log, device, again, prev, bm, norm, reported>>

SynRaise ==
  /\ syn.state = "input"
  /\ ~TransposeChecks(syn.shape, syn.bs)
  /\ syn' = [syn EXCEPT !.state = "InvalidArgument"]
  /\ UNCHANGED <<op, pc, status, arg, entry, transpose_lhs, transpose_rhs,
                 desc, meta, bitmask, kernel, log, device, again, prev, bm, norm, reported>>

\* CALL_CUDA(RowIndices(...)) reports an error.
SynKernelFailure ==
  /\ syn.state = "input"
  /\ TransposeChecks(syn.shape, syn.bs)
  /\ syn' = [syn EXCEPT !.state = "KernelFailure"]
  /\ UNCHANGED <<op, pc, status, arg, entry, transpose_lhs, transpose_rhs,
                 desc, meta, bitmask, kernel, log, device, again, prev, bm, norm, reported>>

NextSyn == SynTranspose \/ SynRaise \/ SynKernelFailure

SpecSyn == InitSyn /\ [][NextSyn]_vars

(***************************************************************************)
(* SpecBitmask: size_in_bytes() on block counts up to the largest a shape  *)
(* of 32-bit integers gives.                                               *)
(***************************************************************************)
BlockCounts ==
  {0, 1, kAlignment - 1, kAlignment, kAlignment + 1, kBlockSize + 1,
   kRowLimit, (MaxBlockCount \div 2) + 1, MaxBlockCount}

InitBitmask ==
  /\ Idle
  /\ syn = NoSyn
  /\ norm = NoNorm
  /\ bm \in {[rows |-> r, cols |-> c, state |-> "input", bytes |-> <<>>] :
               r \in BlockCounts, c \in BlockCounts}

BitmaskSize ==
  /\ bm.state = "input"
  /\ \E bytes \in size_in_bytes(bm.rows, bm.cols) :
       bm' = [bm EXCEPT !.state = "done", !.bytes = bytes]
  /\ UNCHANGED <<op, pc, status, arg, entry, transpose_lhs, transpose_rhs,
                 desc, meta, bitmask, kernel, log, device, again, prev, syn, norm, reported>>

NextBitmask == BitmaskSize

SpecBitmask == InitBitmask /\ [][NextBitmask]_vars

(***************************************************************************)
(* SpecNorm: standardize_shape() called up to MaxNormalize times on one    *)
(* shape tensor, each time with either flag.  hist is the contents of the  *)
(* tensor at the start and after each call, flags the flag of each call.   *)
(***************************************************************************)
NormDims == {0} \cup SynRows

InitNorm ==
  /\ Idle
  /\ syn = NoSyn
  /\ bm = NoBm
  /\ norm \in {[hist |-> <<sh>>, flags |-> <<>>] : sh \in NormDims \X NormDims}

Normalize ==
  /\ Len(norm.flags) < MaxNormalize
  /\ \E transpose \in BOOLEAN :
       norm' = [hist |-> Append(norm.hist,
                                standardize_shape(norm.hist[Len(norm.hist)], transpose)),
                flags |-> Append(norm.flags, transpose)]
  /\ UNCHANGED <<op, pc, status, arg, entry, transpose_lhs, transpose_rhs,
                 desc, meta, bitmask, kernel, log, device, again, prev, syn, bm, reported>>

NextNorm == Normalize

SpecNorm == InitNorm /\ [][NextNorm]_vars

(***************************************************************************)
(* Properties of standardize_shape().                                      *)
(***************************************************************************)
Swapped(shape) == <<shape[2], shape[1]>>

\* C11: one call with flag true leaves (cols, rows); one call with flag
\* false leaves the pair as it was; two calls with flag true in a row restore
\* the pair, so that for rows # cols the second call undoes the first
\* rather than repeating it.
C11_NormalizerSelfInverse ==
  /\ \A i \in 1..Len(norm.flags) :
       norm.hist[i + 1] = IF norm.flags[i] THEN Swapped(norm.hist[i]) ELSE norm.hist[i]
  /\ \A i \in 1..(Len(norm.flags) - 1) :
       (norm.flags[i] /\ norm.flags[i + 1]) =>
         /\ norm.hist[i + 2] = norm.hist[i]
         /\ norm.hist[i][1] # norm.hist[i][2] => norm.hist[i + 2] # norm.hist[i + 1]

\* C11 witness: a shape that is not square, normalised twice with flag true.
C11_Witness ==
  /\ Len(norm.flags) = 2
  /\ norm.flags[1] /\ norm.flags[2]
  /\ norm.hist[1][1] # norm.hist[1][2]
  /\ norm.hist[2] = Swapped(norm.hist[1])
  /\ norm.hist[3] = norm.hist[1]

(***************************************************************************)
(* Properties of transpose().                                              *)
(***************************************************************************)
SynNnz == Len(syn.indices)
SynBlockCols == syn.shape[2] \div syn.bs

\* The number of positions k of 1..n with cell(k) = c.
Count(n, cell(_), c) == Cardinality({k \in 1..n : cell(k) = c})

\* The block column whose segment of offsets_t holds position p of indices_t,
\* and -1 when no segment or more than one holds it.
SegmentOf(offsets_t, p, bs) ==
  LET js == {j \in 1..(Len(offsets_t) - 1) :
               /\ offsets_t[j] < p * kValuesPerBlock(bs)
               /\ p * kValuesPerBlock(bs) <= offsets_t[j + 1]}
  IN  IF Cardinality(js) = 1 THEN (CHOOSE j \in js : TRUE) - 1 ELSE -1

\* The cells the transpose view describes: block column j's segment of
\* indices_t lists the rows of the blocks of column j.
ViewCell(p) ==
  <<syn.out[1][p] \div syn.bs, SegmentOf(syn.out[2], p, syn.bs)>>

\* The cells of the native storage, indices read as block columns.
NativeCellBlocks(k) == <<RowOf(syn.offsets, k), syn.indices[k]>>

\* The cells of the native storage, indices read as element columns.
NativeCellElements(k) == <<RowOf(syn.offsets, k), syn.indices[k] \div syn.bs>>

SameCells(native(_)) ==
  /\ Len(syn.out[1]) = SynNnz
  /\ \A k \in 1..SynNnz :
       Count(SynNnz, ViewCell, native(k)) = Count(SynNnz, native, native(k))
  /\ \A p \in 1..SynNnz :
       Count(SynNnz, ViewCell, ViewCell(p)) = Count(SynNnz, native, ViewCell(p))

IndicesAreBlockColumns == \A k \in 1..SynNnz : syn.indices[k] \in 0..(SynBlockCols - 1)

IndicesAreElementColumns ==
  \A k \in 1..SynNnz :
    syn.indices[k] \in {syn.bs * c : c \in 0..(SynBlockCols - 1)}

C9_OffsetsTShape ==
  (syn.state = "done" /\ \A k \in 1..SynNnz : syn.indices[k] \in 0..(syn.shape[2] - 1))
  => LET offsets_t == syn.out[2]
     IN  /\ Len(offsets_t) = SynBlockCols + 1
         /\ offsets_t[1] = 0
         /\ offsets_t[Len(offsets_t)] = SynNnz * syn.bs * syn.bs
         /\ \A j \in 1..(Len(offsets_t) - 1) : offsets_t[j] <= offsets_t[j + 1]

\* C9 witness: block-column indices, not all zero, over several columns.
C9_Witness ==
  /\ syn.state = "done"
  /\ SynNnz >= 2
  /\ SynBlockCols >= 2
  /\ IndicesAreBlockColumns
  /\ \E k \in 1..SynNnz : syn.indices[k] > 0

\* The positions of indices_t in block column j's segment of offsets_t.
SegmentPositions(j) ==
  {p \in 1..Len(syn.out[1]) : SegmentOf(syn.out[2], p, syn.bs) = j}

\* The block row that entry p of indices_t names.
ViewRow(p) == syn.out[1][p] \div syn.bs

\* The sort keys of line 143 for the input.
SynSortKeys ==
  LET row_idxs == CHOOSE r \in RowIndices(syn.shape[1], syn.bs, syn.offsets, SynNnz) : TRUE
  IN  SortIndices(syn.indices, row_idxs, syn.bs)

\* Segment j of indices_t holds the block rows of the blocks native(k) places
\* in column j, each as often as stored, in ascending order; and two blocks
\* of different cells have different sort keys.
ColumnMajorOrder(native(_)) ==
  /\ Len(syn.out[1]) = SynNnz
  /\ \A j \in 0..(SynBlockCols - 1) :
       /\ \A r \in 0..((syn.shape[1] \div syn.bs) - 1) :
            Cardinality({p \in SegmentPositions(j) : ViewRow(p) = r})
              = Cardinality({k \in 1..SynNnz : native(k) = <<r, j>>})
       /\ \A p, q \in SegmentPositions(j) : p < q => ViewRow(p) <= ViewRow(q)
  /\ \A k1, k2 \in 1..SynNnz :
       native(k1) # native(k2) => SynSortKeys[k1] # SynSortKeys[k2]

\* offsets_t = [0, 1, 2] * block_size^2
TwoSingleColumns == <<0, kValuesPerBlock(syn.bs), 2 * kValuesPerBlock(syn.bs)>>

NativeByteOffset(k) == (k - 1) * syn.bs * syn.bs * SizeofHalf

\* The stored blocks whose byte offset is entry p of block_offsets.
NativeAt(p) == {k \in 1..SynNnz : NativeByteOffset(k) = syn.out[3][p]}

\* block_offsets holds the byte offset of each stored block once, and entry
\* p is the offset of the block that entry p of indices_t is the row of, a
\* block native(k) places in the column whose segment holds p.
BlockOffsetsFollow(native(_)) ==
  /\ Len(syn.out[3]) = SynNnz
  /\ Len(syn.out[1]) = SynNnz
  /\ \A k \in 1..SynNnz :
       Cardinality({p \in 1..SynNnz : syn.out[3][p] = NativeByteOffset(k)}) = 1
  /\ \A p \in 1..SynNnz :
       \E k \in NativeAt(p) :
         /\ ViewRow(p) = RowOf(syn.offsets, k)
         /\ native(k) = <<ViewRow(p), SegmentOf(syn.out[2], p, syn.bs)>>

ExactBitmaskBytes(block_rows, block_cols) ==
  LET words == (block_cols \div 64) + (IF block_cols % 64 = 0 THEN 0 ELSE 1)
  IN  MulBytes(MulBytes(ToBytes(words, 8), ToBytes(block_rows, 8)), ToBytes(8, 8))

\* C10: the bitmask size is exactly ceil(block_cols / 64) * block_rows * 8
\* bytes and does not decrease when block_rows or block_cols grows, for
\* every pair of block counts a shape of 32-bit integers gives.
C10_BitmaskSizeExactAndMonotonic ==
  bm.state = "done" =>
    /\ bm.bytes = ExactBitmaskBytes(bm.rows, bm.cols)
    /\ \A r \in BlockCounts, c \in BlockCounts :
         (bm.rows <= r /\ bm.cols <= c) =>
           \A bytes \in size_in_bytes(r, c) : LessEqBytes(bm.bytes, bytes)

(***************************************************************************)
(* Properties of the operations.                                           *)
(***************************************************************************)
Positions(f) == {i \in 1..Len(log) : log[i].f = f}
PositionsOf(f, x) == {i \in 1..Len(log) : log[i] = Stmt(f, x)}

\* The statement that threw, when the call has thrown.
Thrower == IF status \in {"InvalidArgument", "KernelFailure"} THEN Len(log) ELSE 0

\* ValidMatmul has been evaluated and has held.
Validated == \E i \in Positions("ValidMatmul") : i # Thrower

NoPointers(d) ==
  d.indices_t = "null" /\ d.offsets_t = "null" /\ d.block_offsets = "null"

\* The three tensors of meta are attached to the descriptor.
ViewAttached(x) ==
  /\ Len(meta[x]) = 3
  /\ desc[x].indices_t = "meta[0]"
  /\ desc[x].offsets_t = "meta[1]"
  /\ desc[x].block_offsets = "meta[2]"

\* The call has invoked the plain entry point, once, or none yet.
OnlyMatmul == kernel \in {<<>>, <<"Matmul">>}
OnlyMatmulEx == kernel \in {<<>>, <<"MatmulEx">>}

\* No view was asked for, none exists; the plain entry point is the one used.
PlainDispatch ==
  /\ Positions("transpose") = {}
  /\ meta = NoMeta
  /\ NoPointers(desc.lhs) /\ NoPointers(desc.rhs)
  /\ OnlyMatmul
  /\ status = "returned" => kernel = <<"Matmul">>

\* transpose() ran once, for operand x alone, and its three tensors were
\* attached to x before the extended entry point was invoked.
ExtendedDispatch(x) ==
  /\ Positions("transpose") \subseteq PositionsOf("transpose", x)
  /\ Cardinality(Positions("transpose")) <= 1
  /\ OnlyMatmulEx
  /\ kernel = <<"MatmulEx">> =>
       /\ ViewAttached(x)
       /\ Cardinality(PositionsOf("transpose", x)) = 1
       /\ \A i \in Positions("MatmulEx") :
            \E j \in PositionsOf("transpose", x), k \in PositionsOf("set_pointers", x) :
              j < k /\ k < i
  /\ status = "returned" => kernel = <<"MatmulEx">>

\* C1: in dsd and ssd, on a call that passes validation, a false left flag
\* means transpose() is never invoked, no derived tensor exists and Matmul is
\* the entry point; a true left flag means transpose() runs once and its
\* three tensors are attached to the left descriptor before MatmulEx.
C1_LeftSparseDispatch ==
  (op \in {"dsd", "ssd"} /\ Validated) =>
    IF entry.transpose_a.v = 0 THEN PlainDispatch ELSE ExtendedDispatch("lhs")

\* C1 witness: dsd with a true flag has returned after MatmulEx.
C1_Witness ==
  /\ op = "dsd" /\ status = "returned" /\ entry.transpose_a.v = 1
  /\ kernel = <<"MatmulEx">> /\ ViewAttached("lhs")

\* C2: in dds, on a call that passes validation, a false right flag means
\* transpose() runs once and its three tensors are attached to the right
\* descriptor before MatmulEx; a true right flag means transpose() is never
\* invoked and Matmul is the entry point.
C2_RightSparseDispatch ==
  (op = "dds" /\ Validated) =>
    IF entry.transpose_b.v = 0 THEN ExtendedDispatch("rhs") ELSE PlainDispatch

\* C2 witness: dds with a false flag has returned after MatmulEx.
C2_Witness ==
  /\ op = "dds" /\ status = "returned" /\ entry.transpose_b.v = 0
  /\ kernel = <<"MatmulEx">> /\ ViewAttached("rhs")

BitmaskAttached(x) == bitmask[x] # <<>> /\ desc[x].bitmask = "bitmask"

\* C3: in dss, on a call that passes validation, both bitmasks are allocated
\* and attached before any transpose() and before the kernel, and the entry
\* point is MatmulEx for every pair of flags.
C3_DssBitmasksFirst ==
  (op = "dss" /\ Validated) =>
    /\ \A i \in Positions("transpose") \cup Positions("MatmulEx") :
         /\ \E j \in PositionsOf("allocate_bitmask", "lhs") : j < i
         /\ \E j \in PositionsOf("allocate_bitmask", "rhs") : j < i
         /\ BitmaskAttached("lhs") /\ BitmaskAttached("rhs")
    /\ OnlyMatmulEx
    /\ status = "returned" => kernel = <<"MatmulEx">>

\* C3 witness: dss with left flag false and right flag true, no view needed,
\* has returned after MatmulEx.
C3_Witness ==
  /\ op = "dss" /\ status = "returned"
  /\ entry.transpose_a.v = 0 /\ entry.transpose_b.v = 1
  /\ kernel = <<"MatmulEx">> /\ meta = NoMeta
  /\ BitmaskAttached("lhs") /\ BitmaskAttached("rhs")

AfterValidation == {"allocate_bitmask", "transpose", "set_pointers", "Matmul", "MatmulEx"}

\* C4: in every operation ValidMatmul is evaluated before any bitmask
\* allocation, transpose() and kernel invocation, and a call whose
\* ValidMatmul fails raises with none of them done.
C4_ValidMatmulFirst ==
  /\ \A i \in 1..Len(log) :
       log[i].f \in AfterValidation => \E j \in Positions("ValidMatmul") : j < i
  /\ (device # <<>> \/ kernel # <<>> \/ meta # NoMeta \/ bitmask # NoBitmask)
       => Validated
  /\ (Thrower \in Positions("ValidMatmul")) =>
       /\ status = "InvalidArgument"
       /\ device = <<>> /\ kernel = <<>> /\ meta = NoMeta /\ bitmask = NoBitmask

\* C4 witness: dss has raised at ValidMatmul, the left effective columns
\* differing from the right effective rows.
C4_Witness ==
  /\ op = "dss" /\ status = "InvalidArgument"
  /\ Thrower \in Positions("ValidMatmul")
  /\ (IF transpose_lhs THEN desc.lhs.rows ELSE desc.lhs.cols)
       # (IF transpose_rhs THEN desc.rhs.cols ELSE desc.rhs.rows)

\* C5: every InvalidArgument of a call is raised before any device work of
\* that call (bitmask allocation, RowIndices, sort and gather, multiply).
C5_InvalidArgumentBeforeDeviceWork ==
  status = "InvalidArgument" => device = <<>>

\* C6: a call issued again on the same tensors ends as the first one did,
\* with the same descriptor (rows, cols); a kernel error aside.
C6_RepeatGivesSameOutcome ==
  (again > 0 /\ Finished /\ status # "KernelFailure" /\ prev.status # "KernelFailure")
    => Outcome = prev

\* C7: sdd leaves the output's shape, offsets and indices as they were at
\* entry on every path, never normalises a shape, never runs transpose(),
\* never allocates a bitmask, and invokes Matmul alone.
C7_SddFrame ==
  op = "sdd" =>
    /\ arg.out.shape = entry.out.shape
    /\ arg.out.offsets = entry.out.offsets
    /\ arg.out.indices = entry.out.indices
    /\ Positions("standardize_shape") = {}
    /\ Positions("transpose") = {}
    /\ Positions("allocate_bitmask") = {}
    /\ meta = NoMeta /\ bitmask = NoBitmask
    /\ NoPointers(desc.out)
    /\ OnlyMatmul
    /\ status = "returned" => kernel = <<"Matmul">>

\* C7 witness: sdd on a transposed right operand and an output that is not
\* square has returned after Matmul.
C7_Witness ==
  /\ op = "sdd" /\ status = "returned" /\ kernel = <<"Matmul">>
  /\ transpose_rhs
  /\ arg.out.shape[1] # arg.out.shape[2]

\* The statements of the call that invoked a multiply entry point.
Multiplies == Positions("Matmul") \cup Positions("MatmulEx")

\* C12: in every operation a call invokes a multiply entry point at most
\* once; when the invocation reports an error the call raises at that
\* statement and invokes nothing more; a call that returns has invoked one
\* entry point, once, and that invocation reported success.
C12_KernelOnceNoRetry ==
  /\ Len(kernel) <= 1
  /\ Len(reported) = Len(kernel)
  /\ Cardinality(Multiplies) = Len(kernel)
  /\ (\E i \in 1..Len(reported) : reported[i] # "cudaSuccess") =>
       /\ status = "KernelFailure"
       /\ Thrower \in Multiplies
  /\ status = "returned" =>
       /\ Len(kernel) = 1
       /\ reported = <<"cudaSuccess">>

\* C12 witness: MatmulEx of dss has reported an error and the call has raised.
C12_Witness ==
  /\ op = "dss" /\ status = "KernelFailure"
  /\ kernel = <<"MatmulEx">> /\ reported = <<"cudaError">>
  /\ Thrower \in Positions("MatmulEx")

\* No view of operand x was asked for and none exists.
NoView(x) ==
  /\ PositionsOf("transpose", x) = {}
  /\ PositionsOf("set_pointers", x) = {}
  /\ meta[x] = <<>>
  /\ NoPointers(desc[x])

\* The view of operand x was synthesized once, from the tensors of x, and
\* attached to the descriptor of x before statement i.
ViewBefore(x, i) ==
  /\ Cardinality(PositionsOf("transpose", x)) = 1
  /\ \E j \in PositionsOf("transpose", x), k \in PositionsOf("set_pointers", x) :
       j < k /\ k < i
  /\ ViewAttached(x)
  /\ meta[x] \in Transpose(arg[x].shape, arg[x].bs, arg[x].offsets, arg[x].indices)

\* C13: in dss the left descriptor has the three pointers of a view iff the
\* left flag is true and the right descriptor iff the right flag is false,
\* each rule on its own: an operand that needs no view has none synthesized
\* and every needed view is attached before MatmulEx is invoked, so that
\* left flag true with right flag false gives two triples.
C13_DssViewsPerOperand ==
  (op = "dss" /\ Validated) =>
    /\ entry.transpose_a.v = 0 => NoView("lhs")
    /\ entry.transpose_b.v # 0 => NoView("rhs")
    /\ \A i \in Positions("MatmulEx") :
         /\ entry.transpose_a.v # 0 => ViewBefore("lhs", i)
         /\ entry.transpose_b.v = 0 => ViewBefore("rhs", i)

\* C13 witness: dss with left flag true and right flag false has returned,
\* with one view per operand, of different numbers of block columns.
C13_Witness ==
  /\ op = "dss" /\ status = "returned"
  /\ entry.transpose_a.v = 1 /\ entry.transpose_b.v = 0
  /\ ViewAttached("lhs") /\ ViewAttached("rhs")
  /\ Len(meta.lhs[2]) # Len(meta.rhs[2])
  /\ Cardinality({i \in 1..Len(device) : device[i].f = "RowIndices"}) = 2

\* The block-sparse operands of an operation that come with a transpose flag.
Flagged ==
  CASE op \in {"dsd", "ssd"} -> {"lhs"}
    [] op = "dds" -> {"rhs"}
    [] op = "dss" -> {"lhs", "rhs"}
    [] OTHER -> {}

\* Statement i came after standardize_shape of x, itself after the flag and
\* the shape of x were validated.
NormalisedBefore(x, i) ==
  \E j \in PositionsOf("standardize_shape", x) :
    /\ j < i
    /\ \E t \in PositionsOf("validate_transpose", x) : t < j
    /\ \E v \in PositionsOf("validate_shape", x) : v < j

\* C16: in dsd, dds, ssd and dss standardize_shape is applied once to each
\* block-sparse operand that has a transpose flag, after the flag and the
\* shape are validated, before the descriptor of the operand is built and
\* before ValidMatmul; it is applied to nothing else, the output of ssd and
\* of sdd included.
C16_NormalisedOnceBeforeUse ==
  /\ \A i \in Positions("standardize_shape") : log[i].x \in Flagged
  /\ \A x \in Flagged :
       /\ Cardinality(PositionsOf("standardize_shape", x)) <= 1
       /\ \A j \in PositionsOf("standardize_shape", x) : NormalisedBefore(x, j + 1)
       /\ \A i \in PositionsOf("as_block_matrix", x) \cup Positions("ValidMatmul") :
            NormalisedBefore(x, i)
       /\ status = "returned" => Cardinality(PositionsOf("standardize_shape", x)) = 1

\* C16 witness: ssd with a true flag has returned; the shape of lhs was
\* normalised and the shape of the output, not square, is as it was.
C16_Witness ==
  /\ op = "ssd" /\ status = "returned" /\ again = 0
  /\ entry.transpose_a.v = 1
  /\ PositionsOf("standardize_shape", "lhs") = {3}
  /\ arg.lhs.shape # entry.lhs.shape
  /\ arg.out.shape = entry.out.shape
  /\ arg.out.shape[1] # arg.out.shape[2]

\* The contents of the shape tensor of x: as at entry before this call has
\* normalised it, and after that swapped for a true flag, the same for a
\* false one.
ShapeBufferOf(x) ==
  IF PositionsOf("standardize_shape", x) # {} /\ FlagOf(x).v # 0
  THEN Swapped(entry[x].shape)
  ELSE entry[x].shape

SparseOperands == {x \in {"lhs", "rhs", "out"} : arg[x].kind = "sparse"}

\* C17: once standardize_shape has run for an operand whose flag is true,
\* the caller's shape tensor holds the swapped pair and keeps it on every
\* path, after the call returns and after it raises at any later step; with
\* a false flag, and for an operand without flag, the shape tensor is as it
\* was at entry on every path.
C17_SwapStaysInCallerBuffer ==
  \A x \in SparseOperands : arg[x].shape = ShapeBufferOf(x)

\* C17 witness: dsd with a true flag has raised at the row limit of
\* transpose(), the shape tensor holding the swapped pair.
C17_Witness ==
  /\ op = "dsd" /\ status = "InvalidArgument" /\ again = 0
  /\ entry.transpose_a.v = 1
  /\ Thrower \in Positions("transpose")
  /\ entry.lhs.shape[1] # entry.lhs.shape[2]
  /\ arg.lhs.shape = Swapped(entry.lhs.shape)

\* The pair transpose() reads for operand x, in terms of the shape the
\* caller declared: swapped for a left operand, whose view is made for a
\* true flag, and as declared for a right operand, whose view is made for
\* a false flag.
ShapeReadByTranspose(x) ==
  IF x = "lhs" THEN Swapped(entry[x].shape) ELSE entry[x].shape

\* C18: transpose() runs after standardize_shape and reads the normalised
\* shape tensor: for a left operand the bins and the range of the histogram
\* come from the declared rows and the row limit is checked against the
\* declared cols, for a right operand both are as declared; offsets_t has
\* (normalised cols) / block_size + 1 entries in every call that makes a view.
C18_TransposeReadsNormalisedShape ==
  \A x \in {"lhs", "rhs"} :
    /\ \A i \in PositionsOf("transpose", x) :
         /\ \E j \in PositionsOf("standardize_shape", x) : j < i
         /\ arg[x].shape = ShapeReadByTranspose(x)
         /\ (i = Thrower /\ status = "InvalidArgument")
              <=> ShapeReadByTranspose(x)[1] > kRowLimit
    /\ meta[x] # <<>> =>
         /\ Len(meta[x][2]) = (arg[x].shape[2] \div arg[x].bs) + 1
         /\ Len(meta[x][2]) = (ShapeReadByTranspose(x)[2] \div arg[x].bs) + 1
         /\ meta[x][2] = OffsetsT(arg[x].indices, arg[x].bs, ShapeReadByTranspose(x)[2])
         /\ ShapeReadByTranspose(x)[1] <= kRowLimit

\* C18 witness: dsd with a true flag on a shape declared with more rows than
\* the row limit and one block of columns has made a view, of declared rows
\* / block_size + 1 offsets.
C18_Witness ==
  /\ op = "dsd" /\ status = "returned" /\ again = 0
  /\ entry.transpose_a.v = 1
  /\ entry.lhs.shape[1] > kRowLimit
  /\ entry.lhs.shape[2] = kBlockSize
  /\ Len(meta.lhs[2]) = (entry.lhs.shape[1] \div kBlockSize) + 1

\* The block counts (R, C) of the shape the caller declared for x.
DeclaredBlocks(x) ==
  <<entry[x].shape[1] \div entry[x].bs, entry[x].shape[2] \div entry[x].bs>>

\* C19: in dss the bitmask of each sparse operand has ceil(C / 64) * R * 8
\* bytes, (R, C) the block counts of the shape the caller declared, for
\* both values of the operand's flag: the swap of allocate_bitmask undoes
\* the swap of standardize_shape.
C19_DssBitmaskOfDeclaredShape ==
  op = "dss" =>
    \A x \in {"lhs", "rhs"} :
      bitmask[x] # <<>> =>
        bitmask[x] = ExactBitmaskBytes(DeclaredBlocks(x)[1], DeclaredBlocks(x)[2])

====
